---- MODULE Spec2Model ----
(***************************************************************************)
(* Model of GeneradorHorariosLaboratorio (src/generar_horarios.py): the    *)
(* pipeline of generar_horario (read, filter, aggregate, build the grid),  *)
(* with agrupar_horas_consecutivas and crear_matriz_horario as operators    *)
(* computed the way the code computes them.                                *)
(***************************************************************************)
EXTENDS Integers, Sequences, FiniteSets, TLC

VARIABLES
    mapeo_laboratorios,  \* self.mapeo_laboratorios: source lab -> output lab
    archivo,             \* the report on disk: [existe, ncolumnas, filas]
    columnas,            \* df.columns after leer_reporte_ocupacion
    advertencia,         \* the column-count warning was printed
    df,                  \* rows returned by leer_reporte_ocupacion
    df_filtrado,         \* rows returned by filtrar_laboratorios_mapeados
    clases,              \* sessions returned by agrupar_horas_consecutivas
    df_horario,          \* grid returned by crear_matriz_horario
    pc,                  \* position in generar_horario
    corridas,            \* grids built so far from the current df_filtrado
    mapeo_usado,         \* the mapping crear_matriz_horario was called with
    horario_previo,      \* grid of the previous run
    mapeo_previo,        \* the mapping the previous run was called with
    actualizaciones      \* calls of actualizar_mapeo_laboratorios so far

vars == <<mapeo_laboratorios, archivo, columnas, advertencia, df, df_filtrado,
          clases, df_horario, pc, corridas, mapeo_usado, horario_previo,
          mapeo_previo, actualizaciones>>

(***************************************************************************)
(* Bounds of the model.                                                    *)
(***************************************************************************)
MaxFilas == 3
MaxFilasInscritos == 4
MaxFilasReporte == 2
MaxColumnas == 13
MaxClases == 2
MaxCorridas == 2
MaxActualizaciones == 1

(***************************************************************************)
(* Configuration set by __init__.                                          *)
(***************************************************************************)
MapeoInicial ==
    [lab \in {"LABORATORIO GEIO CAP(25)",
              "SALA DE SOFTWARE DE TECNOLOGIA E INGENIERIA DE PRODUCCION A CAP(17)",
              "SALA DE SOFTWARE DE TECNOLOGIA E NGENIERIA DE PRODUCCION B CAP(25)",
              "LABORATORIO HAS CAP(22)",
              "LABORATORIO FMS CAP(18)",
              "LABORATORIO DE PROCESOS DE TRANSFORMACIÓN MECÁNICA"} |->
        CASE lab = "LABORATORIO GEIO CAP(25)" -> "GEIO (321) TECHNE"
          [] lab = "SALA DE SOFTWARE DE TECNOLOGIA E INGENIERIA DE PRODUCCION A CAP(17)"
                 -> "Sala de Software A - 16 EST - 416- TECHNE"
          [] lab = "SALA DE SOFTWARE DE TECNOLOGIA E NGENIERIA DE PRODUCCION B CAP(25)"
                 -> "Sala de Software B - 24 EST - 417 TECHNE"
          [] lab = "LABORATORIO HAS CAP(22)" -> "HAS-200 (317) TECHNE"
          [] lab = "LABORATORIO FMS CAP(18)" -> "FMS-200 (320) TECHNE"
          [] OTHER -> "LABORATORIO DE PROCESOS DE TRANSFORMACIÓN BLOQUE 1-102"]

dias == <<"LUNES", "MARTES", "MIERCOLES", "JUEVES", "VIERNES", "SABADO">>

franjas_horarias ==
    <<"6AM-7AM", "7AM-8AM", "8AM-9AM", "9AM-10AM", "10AM-11AM",
      "11AM-12M", "12M-1PM", "1PM-2PM", "2PM-3PM", "3PM-4PM",
      "4PM-5PM", "5PM-6PM", "6PM-7PM", "7PM-8PM", "8PM-9PM", "9PM-10PM">>

columnas_entrada ==
    <<"Periodo", "Día", "Hora", "Asignatura", "Grupo",
      "Proyecto", "Salón", "Área", "Edificio", "Sede",
      "Inscritos", "Docente">>

(***************************************************************************)
(* Python values.  None is the value of dict.get on a missing key and of   *)
(* 'hora_fin' in a one-slot session; it is no label of the model.          *)
(***************************************************************************)
None == "<None>"

Rango(S) == {S[i] : i \in DOMAIN S}

\* list.index: the first position of x in S, 0 when Python raises ValueError
Indice(S, x) ==
    IF x \in Rango(S) THEN CHOOSE i \in DOMAIN S : S[i] = x /\ \A j \in 1..(i-1) : S[j] # x
    ELSE 0

(***************************************************************************)
(* Python compares str values by code point.  OrdenCadenas lists every     *)
(* string of the model in that order (the order sorted() gives them).      *)
(***************************************************************************)
OrdenCadenas ==
    <<"", "10AM-11AM", "10PM-11PM", "11AM-12M", "12M-1PM", "1PM-2PM", "2PM-3PM",
      "3PM-4PM", "4PM-5PM", "5PM-6PM", "6AM-7AM", "6PM-7PM", "7AM-8AM",
      "7PM-8PM", "8AM-9AM", "8PM-9PM", "9AM-10AM", "9PM-10PM", "AULA 101",
      "CALCULO", "DOMINGO", "FISICA", "FMS-200 (320) TECHNE", "G1", "G2",
      "GEIO (321) TECHNE", "HAS-200 (317) TECHNE", "JUEVES",
      "LABORATORIO DE PROCESOS DE TRANSFORMACIÓN BLOQUE 1-102",
      "LABORATORIO DE PROCESOS DE TRANSFORMACIÓN MECÁNICA",
      "LABORATORIO FMS CAP(18)", "LABORATORIO GEIO CAP(25)",
      "LABORATORIO HAS CAP(22)", "LUNES", "MACARENA", "MARTES", "MIERCOLES",
      "P1", "P2", "PEREZ", "SABADO",
      "SALA DE SOFTWARE DE TECNOLOGIA E INGENIERIA DE PRODUCCION A CAP(17)",
      "SALA DE SOFTWARE DE TECNOLOGIA E NGENIERIA DE PRODUCCION B CAP(25)",
      "SALA NUEVA (100)", "SMITH", "Sala de Software A - 16 EST - 416- TECHNE",
      "Sala de Software B - 24 EST - 417 TECHNE", "TECHNE", "Techne", "VIERNES">>

MenorCadena(a, b) == Indice(OrdenCadenas, a) < Indice(OrdenCadenas, b)

\* tuple comparison of Python: the first differing position decides
MenorTupla(s, t) ==
    \E i \in 1..Len(s) :
        /\ \A j \in 1..(i-1) : s[j] = t[j]
        /\ MenorCadena(s[i], t[i])

(***************************************************************************)
(* son_horas_consecutivas                                                  *)
(***************************************************************************)
son_horas_consecutivas(hora1, hora2) ==
    IF Indice(franjas_horarias, hora1) = 0 \/ Indice(franjas_horarias, hora2) = 0
    THEN FALSE   \* except ValueError
    ELSE Indice(franjas_horarias, hora2) = Indice(franjas_horarias, hora1) + 1

(***************************************************************************)
(* agrupar_horas_consecutivas                                              *)
(***************************************************************************)
\* the key as it would be with 'Docente' left out of campos_agrupacion
ClaveGrupoSinDocente(f) ==
    <<f.Dia, f.Asignatura, f.Grupo, f.Proyecto, f.Salon, "">>

\* campos_agrupacion: the key of a row in df.groupby
ClaveGrupo(f) ==
    <<f.Dia, f.Asignatura, f.Grupo, f.Proyecto, f.Salon, f.Docente>>

\* the group keys in the order groupby (sort=True) iterates them
RECURSIVE OrdenarClaves(_)
OrdenarClaves(S) ==
    IF S = {} THEN <<>>
    ELSE LET k == CHOOSE x \in S : \A y \in S \ {x} : MenorTupla(x, y)
         IN  <<k>> \o OrdenarClaves(S \ {k})

\* df_grupo: the rows of one group, in the order of df
FilasDeGrupo(filas, clave) == SelectSeq(filas, LAMBDA f : ClaveGrupo(f) = clave)

\* sort_values('Hora'): 'Hora' holds str, so the order is the one of str;
\* rows with the same label keep their order
RECURSIVE InsertarPorHora(_, _)
InsertarPorHora(ordenadas, f) ==
    IF ordenadas = <<>> THEN <<f>>
    ELSE IF MenorCadena(f.Hora, ordenadas[Len(ordenadas)].Hora)
         THEN InsertarPorHora(SubSeq(ordenadas, 1, Len(ordenadas) - 1), f)
                  \o <<ordenadas[Len(ordenadas)]>>
         ELSE ordenadas \o <<f>>

RECURSIVE OrdenarPorHora(_)
OrdenarPorHora(filas) ==
    IF filas = <<>> THEN <<>>
    ELSE InsertarPorHora(OrdenarPorHora(SubSeq(filas, 1, Len(filas) - 1)),
                         filas[Len(filas)])

\* info_clase
Clase(clave, inicio, fin, inscritos, dos_horas) ==
    [dia |-> clave[1], hora_inicio |-> inicio, hora_fin |-> fin,
     asignatura |-> clave[2], grupo |-> clave[3], proyecto |-> clave[4],
     laboratorio |-> clave[5], docente |-> clave[6],
     inscritos |-> inscritos, es_de_dos_horas |-> dos_horas]

\* the while loop over horas (i counts from 1 here, from 0 in the code)
RECURSIVE BuscarPares(_, _, _, _, _)
BuscarPares(clave, grupo, horas, i, procesadas) ==
    IF ~(i < Len(horas)) THEN [clases |-> <<>>, procesadas |-> procesadas]
    ELSE IF horas[i] \in procesadas
    THEN BuscarPares(clave, grupo, horas, i + 1, procesadas)
    ELSE IF son_horas_consecutivas(horas[i], horas[i + 1])
    THEN LET resto == BuscarPares(clave, grupo, horas, i + 2,
                                  procesadas \cup {horas[i], horas[i + 1]})
         IN  [clases |-> <<Clase(clave, horas[i], horas[i + 1],
                                 grupo[1].Inscritos, TRUE)>> \o resto.clases,
              procesadas |-> resto.procesadas]
    ELSE BuscarPares(clave, grupo, horas, i + 1, procesadas)

\* the for loop over the remaining horas
RECURSIVE HorasRestantes(_, _, _, _, _)
HorasRestantes(clave, grupo, horas, i, procesadas) ==
    IF i > Len(horas) THEN <<>>
    ELSE (IF horas[i] \notin procesadas
          THEN <<Clase(clave, horas[i], None,
                       SelectSeq(grupo, LAMBDA f : f.Hora = horas[i])[1].Inscritos,
                       FALSE)>>
          ELSE <<>>)
         \o HorasRestantes(clave, grupo, horas, i + 1, procesadas)

\* the body of the loop over the groups
ClasesDeGrupo(filas, clave) ==
    LET df_grupo == OrdenarPorHora(FilasDeGrupo(filas, clave))
        horas    == [i \in DOMAIN df_grupo |-> df_grupo[i].Hora]
        pares    == BuscarPares(clave, df_grupo, horas, 1, {})
    IN  pares.clases \o HorasRestantes(clave, df_grupo, horas, 1, pares.procesadas)

RECURSIVE ClasesDeGrupos(_, _)
ClasesDeGrupos(filas, claves) ==
    IF claves = <<>> THEN <<>>
    ELSE ClasesDeGrupo(filas, claves[1]) \o ClasesDeGrupos(filas, Tail(claves))

agrupar_horas_consecutivas(filas) ==
    ClasesDeGrupos(filas, OrdenarClaves({ClaveGrupo(filas[i]) : i \in DOMAIN filas}))

(***************************************************************************)
(* crear_matriz_horario                                                    *)
(***************************************************************************)
\* sorted(...) of a set of str
RECURSIVE OrdenarCadenas(_)
OrdenarCadenas(S) ==
    IF S = {} THEN <<>>
    ELSE LET m == CHOOSE x \in S : \A y \in S \ {x} : MenorCadena(x, y)
         IN  <<m>> \o OrdenarCadenas(S \ {m})

\* laboratorios_salida: the distinct output names, sorted
laboratorios_salida(mapeo) == OrdenarCadenas({mapeo[k] : k \in DOMAIN mapeo})

\* f"{v}" of a value that may be None
Texto(v) == IF v = None THEN "None" ELSE v

ColAsignatura(lab) == Texto(lab) \o "_asignatura"

ColGrupo(lab) == Texto(lab) \o "_grupo"

\* columnas: 'Dia', 'Hora', then the pair of columns of each output lab
ColumnasHorario(labs) ==
    {"Dia", "Hora"} \cup {ColAsignatura(labs[i]) : i \in DOMAIN labs}
                    \cup {ColGrupo(labs[i]) : i \in DOMAIN labs}

\* fila and fila_separadora: a dict with every lab column empty
FilaHorario(dia, franja, labs) ==
    [c \in ColumnasHorario(labs) |->
        IF c = "Dia" THEN dia ELSE IF c = "Hora" THEN franja ELSE ""]

\* the rows of a day as they would be without the test `i < len(self.dias) - 1`
FilasDeDiaConSeparador(i, labs) ==
    [j \in DOMAIN franjas_horarias |-> FilaHorario(dias[i], franjas_horarias[j], labs)]
        \o <<FilaHorario("", "", labs)>>

\* the rows appended for dias[i]
FilasDeDia(i, labs) ==
    [j \in DOMAIN franjas_horarias |-> FilaHorario(dias[i], franjas_horarias[j], labs)]
        \o (IF i < Len(dias) THEN <<FilaHorario("", "", labs)>> ELSE <<>>)

RECURSIVE FilasDesde(_, _)
FilasDesde(i, labs) ==
    IF i > Len(dias) THEN <<>>
    ELSE FilasDeDia(i, labs) \o FilasDesde(i + 1, labs)

\* the base dataframe
HorarioBase(mapeo) == FilasDesde(1, laboratorios_salida(mapeo))

\* mascara.any() and df_horario[mascara].index[0]: the first row with this
\* Dia and Hora, 0 when the mask is all False
PrimeraFila(horario, dia, hora) ==
    LET mascara == {i \in DOMAIN horario :
                       horario[i]["Dia"] = dia /\ horario[i]["Hora"] = hora}
    IN  IF mascara = {} THEN 0
        ELSE CHOOSE i \in mascara : \A j \in mascara : i <= j

\* df_horario.loc[idx, col] = valor; a column the frame lacks is added, NaN
\* in its other rows
NaN == "<NaN>"

Escribir(horario, idx, col, valor) ==
    IF col \in DOMAIN horario[idx]
    THEN [horario EXCEPT ![idx][col] = valor]
    ELSE [i \in DOMAIN horario |->
            [c \in DOMAIN horario[i] \cup {col} |->
                IF c # col THEN horario[i][c]
                ELSE IF i = idx THEN valor ELSE NaN]]

\* the assignments as they would be if a cell already filled were kept
EscribirCeldaSiVacia(horario, dia, hora, lab, primera, segunda) ==
    LET idx == PrimeraFila(horario, dia, hora)
    IN  IF idx = 0 THEN horario
        ELSE IF horario[idx][ColAsignatura(lab)] # "" THEN horario
        ELSE Escribir(Escribir(horario, idx, ColAsignatura(lab), primera),
                      idx, ColGrupo(lab), segunda)

\* the two assignments under `if mascara.any()`
EscribirCelda(horario, dia, hora, lab, primera, segunda) ==
    LET idx == PrimeraFila(horario, dia, hora)
    IN  IF idx = 0 THEN horario
        ELSE Escribir(Escribir(horario, idx, ColAsignatura(lab), primera),
                      idx, ColGrupo(lab), segunda)

\* self.mapeo_laboratorios.get(...)
Resolver(mapeo, lab) == IF lab \in DOMAIN mapeo THEN mapeo[lab] ELSE None

\* the test as it would be without the `continue`
SeOmiteNunca(laboratorio_salida) == FALSE

\* `if not laboratorio_salida: continue`
SeOmite(laboratorio_salida) == laboratorio_salida \in {None, ""}

grupo_con_inscritos(c) == c.grupo \o " | " \o ToString(c.inscritos)

\* the loop body as it would be if the second hour repeated subject and group
ColocarClaseRepetida(horario, mapeo, c) ==
    LET lab == Resolver(mapeo, c.laboratorio)
    IN  IF SeOmite(lab) THEN horario
        ELSE IF c.es_de_dos_horas
        THEN EscribirCelda(
                 EscribirCelda(horario, c.dia, c.hora_inicio, lab,
                               c.asignatura, grupo_con_inscritos(c)),
                 c.dia, c.hora_fin, lab, c.asignatura, grupo_con_inscritos(c))
        ELSE EscribirCelda(horario, c.dia, c.hora_inicio, lab,
                           c.asignatura, grupo_con_inscritos(c))

\* the body of the loop over clases
ColocarClase(horario, mapeo, c) ==
    LET lab == Resolver(mapeo, c.laboratorio)
    IN  IF SeOmite(lab) THEN horario
        ELSE IF c.es_de_dos_horas
        THEN EscribirCelda(
                 EscribirCelda(horario, c.dia, c.hora_inicio, lab,
                               c.asignatura, grupo_con_inscritos(c)),
                 c.dia, c.hora_fin, lab, c.docente, c.proyecto)
        ELSE EscribirCelda(horario, c.dia, c.hora_inicio, lab,
                           c.asignatura, grupo_con_inscritos(c))

RECURSIVE ColocarClases(_, _, _)
ColocarClases(horario, mapeo, cs) ==
    IF cs = <<>> THEN horario
    ELSE ColocarClases(ColocarClase(horario, mapeo, cs[1]), mapeo, Tail(cs))

crear_matriz_horario(cs, mapeo) == ColocarClases(HorarioBase(mapeo), mapeo, cs)

(***************************************************************************)
(* leer_reporte_ocupacion                                                  *)
(***************************************************************************)
\* S[:n]
Rebanada(S, n) == SubSeq(S, 1, IF n < Len(S) THEN n ELSE Len(S))

\* df.columns = self.columnas_entrada[:len(df.columns)]: pandas raises
\* ValueError when the new names are not as many as the columns
RenombrarColumnas(ncolumnas) ==
    LET nuevas == Rebanada(columnas_entrada, ncolumnas)
    IN  [error |-> Len(nuevas) # ncolumnas, columnas |-> nuevas]

LeerReporteOcupacion ==
    /\ pc = "inicio"
    /\ IF ~archivo.existe
       THEN \* FileNotFoundError, raised again as Exception
            /\ pc' = "error_lectura"
            /\ UNCHANGED <<columnas, advertencia, df>>
       ELSE /\ advertencia' = (archivo.ncolumnas # Len(columnas_entrada))
            /\ IF RenombrarColumnas(archivo.ncolumnas).error
               THEN /\ pc' = "error_lectura"
                    /\ UNCHANGED <<columnas, df>>
               ELSE /\ columnas' = RenombrarColumnas(archivo.ncolumnas).columnas
                    /\ df' = archivo.filas
                    /\ pc' = "leido"
    /\ UNCHANGED <<mapeo_laboratorios, archivo, df_filtrado, clases, df_horario,
                   corridas, mapeo_usado, horario_previo, mapeo_previo,
                   actualizaciones>>

(***************************************************************************)
(* filtrar_laboratorios_mapeados, and the check of generar_horario on it   *)
(***************************************************************************)
\* str.upper on the values of 'Edificio'
Mayusculas(s) == IF s = "Techne" THEN "TECHNE" ELSE s

FiltrarLaboratoriosMapeados ==
    /\ pc = "leido"
    /\ IF ~({"Salón", "Edificio"} \subseteq Rango(columnas))
       THEN \* KeyError
            /\ pc' = "error"
            /\ UNCHANGED df_filtrado
       ELSE /\ df_filtrado' =
                  SelectSeq(df, LAMBDA f : /\ f.Salon \in DOMAIN mapeo_laboratorios
                                           /\ Mayusculas(f.Edificio) = "TECHNE")
            /\ pc' = IF df_filtrado' = <<>> THEN "sin_datos" ELSE "filtrado"
    /\ UNCHANGED <<mapeo_laboratorios, archivo, columnas, advertencia, df, clases,
                   df_horario, corridas, mapeo_usado, horario_previo, mapeo_previo,
                   actualizaciones>>

(***************************************************************************)
(* Paso 3 and Paso 4 of generar_horario                                    *)
(***************************************************************************)
AgruparHorasConsecutivas ==
    /\ pc = "filtrado"
    /\ IF ~({"Día", "Hora", "Asignatura", "Grupo", "Proyecto", "Salón",
             "Inscritos", "Docente"} \subseteq Rango(columnas))
       THEN \* KeyError
            /\ pc' = "error"
            /\ UNCHANGED clases
       ELSE /\ clases' = agrupar_horas_consecutivas(df_filtrado)
            /\ pc' = IF clases' = <<>> THEN "sin_clases" ELSE "agrupado"
    /\ UNCHANGED <<mapeo_laboratorios, archivo, columnas, advertencia, df,
                   df_filtrado, df_horario, corridas, mapeo_usado, horario_previo,
                   mapeo_previo, actualizaciones>>

\* Paso 4 as it would be if the lookup removed the entries it finds (pop for get)
CrearMatrizHorarioPop ==
    /\ pc = "agrupado"
    /\ df_horario' = crear_matriz_horario(clases, mapeo_laboratorios)
    /\ mapeo_laboratorios' =
           [k \in DOMAIN mapeo_laboratorios \ {clases[i].laboratorio : i \in DOMAIN clases}
               |-> mapeo_laboratorios[k]]
    /\ mapeo_usado' = mapeo_laboratorios
    /\ corridas' = corridas + 1
    /\ pc' = "matriz"
    /\ UNCHANGED <<archivo, columnas, advertencia, df, df_filtrado,
                   clases, horario_previo, mapeo_previo, actualizaciones>>

CrearMatrizHorario ==
    /\ pc = "agrupado"
    /\ df_horario' = crear_matriz_horario(clases, mapeo_laboratorios)
    /\ mapeo_usado' = mapeo_laboratorios
    /\ corridas' = corridas + 1
    /\ pc' = "matriz"
    /\ UNCHANGED <<mapeo_laboratorios, archivo, columnas, advertencia, df, df_filtrado,
                   clases, horario_previo, mapeo_previo, actualizaciones>>

\* the two steps are run again on the same df_filtrado
Repetir ==
    /\ pc = "matriz"
    /\ corridas < MaxCorridas
    /\ horario_previo' = df_horario
    /\ mapeo_previo' = mapeo_usado
    /\ pc' = "filtrado"
    /\ UNCHANGED <<mapeo_laboratorios, archivo, columnas, advertencia, df, df_filtrado,
                   clases, df_horario, corridas, mapeo_usado, actualizaciones>>

(***************************************************************************)
(* actualizar_mapeo_laboratorios                                           *)
(***************************************************************************)
MapeosAdicionales ==
    { [lab \in {"AULA 101"} |-> "SALA NUEVA (100)"],
      [lab \in {"LABORATORIO HAS CAP(22)"} |-> "GEIO (321) TECHNE"] }

\* dict.update
Actualizar(mapeo, nuevo_mapeo) ==
    [k \in DOMAIN mapeo \cup DOMAIN nuevo_mapeo |->
        IF k \in DOMAIN nuevo_mapeo THEN nuevo_mapeo[k] ELSE mapeo[k]]

ActualizarMapeoLaboratorios ==
    /\ pc \in {"inicio", "filtrado"}
    /\ actualizaciones < MaxActualizaciones
    /\ \E nuevo_mapeo \in MapeosAdicionales :
           mapeo_laboratorios' = Actualizar(mapeo_laboratorios, nuevo_mapeo)
    /\ actualizaciones' = actualizaciones + 1
    /\ UNCHANGED <<archivo, columnas, advertencia, df, df_filtrado, clases,
                   df_horario, pc, corridas, mapeo_usado, horario_previo,
                   mapeo_previo>>

(***************************************************************************)
(* Inputs                                                                  *)
(***************************************************************************)
SeqHasta(S, n) == UNION {[1..k -> S] : k \in 0..n}

Fila(dia, hora, asignatura, grupo, proyecto, salon, edificio, inscritos, docente) ==
    [Dia |-> dia, Hora |-> hora, Asignatura |-> asignatura, Grupo |-> grupo,
     Proyecto |-> proyecto, Salon |-> salon, Edificio |-> edificio,
     Inscritos |-> inscritos, Docente |-> docente]

FilaDeClave(clave, hora, inscritos) ==
    Fila(clave[1], hora, clave[2], clave[3], clave[4], clave[5], "TECHNE",
         inscritos, clave[6])

ClaveBase == <<"LUNES", "CALCULO", "G1", "P1", "LABORATORIO GEIO CAP(25)", "PEREZ">>

\* ClaveBase and the six keys that differ from it in exactly one field
ClavesVecinas ==
    {ClaveBase} \cup
    { [ClaveBase EXCEPT ![1] = "MARTES"], [ClaveBase EXCEPT ![2] = "FISICA"],
      [ClaveBase EXCEPT ![3] = "G2"], [ClaveBase EXCEPT ![4] = "P2"],
      [ClaveBase EXCEPT ![5] = "LABORATORIO HAS CAP(22)"],
      [ClaveBase EXCEPT ![6] = "SMITH"] }

\* one group, every slot of the catalog and one label outside it
FilasCatalogo ==
    {FilaDeClave(ClaveBase, h, 20) : h \in Rango(franjas_horarias) \cup {"10PM-11PM"}}

\* several groups on two adjacent slots
FilasGrupos ==
    {FilaDeClave(k, h, 20) : k \in ClavesVecinas, h \in {"8AM-9AM", "9AM-10AM"}}

\* one group, four adjacent slots, two enrollment counts
FilasInscritos ==
    {FilaDeClave(ClaveBase, h, n) :
        h \in {"10AM-11AM", "11AM-12M", "12M-1PM", "1PM-2PM"}, n \in {20, 25}}

DatosFiltrados ==
    SeqHasta(FilasCatalogo, MaxFilas) \cup SeqHasta(FilasGrupos, MaxFilas)
        \cup SeqHasta(FilasInscritos, MaxFilasInscritos)

\* the rows of the reports: mapped and unmapped rooms, in and out of TECHNE
FilasReporte ==
    { FilaDeClave(ClaveBase, "8AM-9AM", 20),
      FilaDeClave(ClaveBase, "9AM-10AM", 25),
      FilaDeClave([ClaveBase EXCEPT ![5] = "LABORATORIO HAS CAP(22)"], "8AM-9AM", 20),
      FilaDeClave([ClaveBase EXCEPT ![5] = "AULA 101"], "8AM-9AM", 20),
      Fila("LUNES", "10AM-11AM", "CALCULO", "G1", "P1", "LABORATORIO GEIO CAP(25)",
           "MACARENA", 20, "PEREZ"),
      Fila("LUNES", "10AM-11AM", "CALCULO", "G1", "P1", "LABORATORIO GEIO CAP(25)",
           "Techne", 20, "PEREZ") }

Archivos ==
    { [existe |-> FALSE, ncolumnas |-> 0, filas |-> <<>>] }
    \cup { [existe |-> TRUE, ncolumnas |-> n,
            filas |-> <<FilaDeClave(ClaveBase, "8AM-9AM", 20),
                        FilaDeClave(ClaveBase, "9AM-10AM", 25)>>] : n \in 0..MaxColumnas }
    \cup { [existe |-> TRUE, ncolumnas |-> Len(columnas_entrada), filas |-> filas] :
            filas \in SeqHasta(FilasReporte, MaxFilasReporte) }

\* sessions handed to crear_matriz_horario: in the grid, with a room that is
\* not mapped, and with a day or a slot that is not in the catalog
ClaveHAS == <<"LUNES", "FISICA", "G2", "P2", "LABORATORIO HAS CAP(22)", "SMITH">>

ClasesPosibles ==
    { Clase([ClaveBase EXCEPT ![1] = d], "8AM-9AM", "9AM-10AM", 20, TRUE) :
          d \in {"LUNES", "SABADO"} }
    \cup { Clase([ClaveBase EXCEPT ![1] = d], "9AM-10AM", None, 25, FALSE) :
          d \in {"LUNES", "SABADO"} }
    \cup { Clase(ClaveHAS, "8AM-9AM", "9AM-10AM", 20, TRUE),
           Clase(ClaveHAS, "9AM-10AM", None, 25, FALSE) }
    \cup { Clase([ClaveBase EXCEPT ![5] = "AULA 101"], "8AM-9AM", "9AM-10AM", 20, TRUE),
           Clase([ClaveBase EXCEPT ![5] = "AULA 101"], "9AM-10AM", None, 20, FALSE),
           Clase([ClaveBase EXCEPT ![1] = "DOMINGO"], "9AM-10AM", None, 20, FALSE),
           Clase([ClaveBase EXCEPT ![1] = ""], "", None, 20, FALSE),
           Clase(ClaveBase, "10PM-11PM", None, 20, FALSE),
           Clase(ClaveBase, "10PM-11PM", "6AM-7AM", 20, TRUE) }

ListasDeClases == SeqHasta(ClasesPosibles, MaxClases)

(***************************************************************************)
(* Specifications                                                          *)
(***************************************************************************)
InitComun ==
    /\ advertencia = FALSE
    /\ df = <<>>
    /\ df_horario = <<>>
    /\ corridas = 0
    /\ mapeo_usado = MapeoInicial
    /\ horario_previo = <<>>
    /\ mapeo_previo = MapeoInicial

\* generar_horario on a report
Init ==
    /\ InitComun
    /\ mapeo_laboratorios = MapeoInicial
    /\ actualizaciones = 0
    /\ archivo \in Archivos
    /\ columnas = <<>>
    /\ df_filtrado = <<>>
    /\ clases = <<>>
    /\ pc = "inicio"

Next ==
    \/ LeerReporteOcupacion
    \/ FiltrarLaboratoriosMapeados
    \/ AgruparHorasConsecutivas
    \/ CrearMatrizHorario
    \/ Repetir
    \/ ActualizarMapeoLaboratorios

Spec == Init /\ [][Next]_vars

\* agrupar_horas_consecutivas on a filtered set
InitAgrupar ==
    /\ InitComun
    /\ mapeo_laboratorios = MapeoInicial
    /\ actualizaciones = 0
    /\ archivo = [existe |-> FALSE, ncolumnas |-> 0, filas |-> <<>>]
    /\ columnas = columnas_entrada
    /\ df_filtrado \in DatosFiltrados
    /\ clases = <<>>
    /\ pc = "filtrado"

NextAgrupar == AgruparHorasConsecutivas

SpecAgrupar == InitAgrupar /\ [][NextAgrupar]_vars

\* crear_matriz_horario on a list of sessions, under the mapping of __init__
\* or after one call of actualizar_mapeo_laboratorios
InitMatriz ==
    /\ InitComun
    /\ \/ mapeo_laboratorios = MapeoInicial /\ actualizaciones = 0
       \/ /\ mapeo_laboratorios \in
                 {Actualizar(MapeoInicial, nuevo_mapeo) : nuevo_mapeo \in MapeosAdicionales}
          /\ actualizaciones = 1
    /\ archivo = [existe |-> FALSE, ncolumnas |-> 0, filas |-> <<>>]
    /\ columnas = columnas_entrada
    /\ df_filtrado = <<>>
    /\ clases \in ListasDeClases
    /\ pc = "agrupado"

NextMatriz == CrearMatrizHorario

SpecMatriz == InitMatriz /\ [][NextMatriz]_vars

(***************************************************************************)
(* Vocabulary of the properties.  The six grouping fields are spelled out  *)
(* here, apart from the code's campos_agrupacion.                          *)
(***************************************************************************)
CamposDeFila(f) == <<f.Dia, f.Asignatura, f.Grupo, f.Proyecto, f.Salon, f.Docente>>

CamposDeClase(c) == <<c.dia, c.asignatura, c.grupo, c.proyecto, c.laboratorio, c.docente>>

ClavesDeEntrada == {CamposDeFila(df_filtrado[i]) : i \in DOMAIN df_filtrado}

\* positions of the rows of df_filtrado with key k (and slot h)
FilasCon(k) == {i \in DOMAIN df_filtrado : CamposDeFila(df_filtrado[i]) = k}

FilasEn(k, h) == {i \in FilasCon(k) : df_filtrado[i].Hora = h}

\* positions of the sessions of clases with key k
ClasesCon(k) == {i \in DOMAIN clases : CamposDeClase(clases[i]) = k}

PosEnCatalogo(h) == Indice(franjas_horarias, h)

Agrupado == pc = "agrupado"

\* C1: a group made of exactly one record at slot a and one at the next
\* catalog slot b yields exactly one session: two-slot, from a to b.
C1_ParAdyacenteUnaSesion ==
    Agrupado =>
        \A k \in ClavesDeEntrada : \A p \in 1..(Len(franjas_horarias) - 1) :
            LET a == franjas_horarias[p]
                b == franjas_horarias[p + 1]
            IN  ( /\ Cardinality(FilasCon(k)) = 2
                  /\ Cardinality(FilasEn(k, a)) = 1
                  /\ Cardinality(FilasEn(k, b)) = 1 )
                => /\ Cardinality(ClasesCon(k)) = 1
                   /\ \A i \in ClasesCon(k) :
                         /\ clases[i].es_de_dos_horas
                         /\ clases[i].hora_inicio = a
                         /\ clases[i].hora_fin = b

\* C2: a group with exactly one record at each of three successive catalog
\* slots A, B, C yields the two-slot session (A, B) and the one-slot session
\* C, and not the one-slot session A with the two-slot session (B, C).
C2_TresAdyacentesPrimerPar ==
    Agrupado =>
        \A k \in ClavesDeEntrada : \A p \in 1..(Len(franjas_horarias) - 2) :
            LET A == franjas_horarias[p]
                B == franjas_horarias[p + 1]
                C == franjas_horarias[p + 2]
            IN  ( /\ Cardinality(FilasCon(k)) = 3
                  /\ Cardinality(FilasEn(k, A)) = 1
                  /\ Cardinality(FilasEn(k, B)) = 1
                  /\ Cardinality(FilasEn(k, C)) = 1 )
                => /\ \E i \in ClasesCon(k) :
                         /\ clases[i].es_de_dos_horas
                         /\ clases[i].hora_inicio = A /\ clases[i].hora_fin = B
                   /\ \E i \in ClasesCon(k) :
                         /\ ~clases[i].es_de_dos_horas
                         /\ clases[i].hora_inicio = C
                   /\ ~\E i \in ClasesCon(k) :
                         /\ clases[i].es_de_dos_horas
                         /\ clases[i].hora_inicio = B /\ clases[i].hora_fin = C
                   /\ ~\E i \in ClasesCon(k) :
                         /\ ~clases[i].es_de_dos_horas
                         /\ clases[i].hora_inicio = A

\* the sessions of key k that cover slot h: as their start, or as the end of
\* a two-slot session
CubrenInicio(k, h) == {i \in ClasesCon(k) : clases[i].hora_inicio = h}

CubrenFin(k, h) ==
    {i \in ClasesCon(k) : clases[i].es_de_dos_horas /\ clases[i].hora_fin = h}

\* C5: every input row is covered by exactly one session: for each group
\* and slot label, as many sessions cover the slot as the group has rows
\* with that label.
C5_CadaFilaEnUnaSesion ==
    Agrupado =>
        \A k \in ClavesDeEntrada : \A i \in FilasCon(k) :
            LET h == df_filtrado[i].Hora
            IN  Cardinality(CubrenInicio(k, h)) + Cardinality(CubrenFin(k, h))
                    = Cardinality(FilasEn(k, h))

\* C7: every two-slot session covers two distinct rows of one and the same
\* group key, its own: rows that differ in a grouping field never merge.
C7_SoloSeFusionaUnMismoGrupo ==
    Agrupado =>
        \A n \in DOMAIN clases :
            clases[n].es_de_dos_horas =>
                \E i, j \in FilasCon(CamposDeClase(clases[n])) :
                    /\ i # j
                    /\ df_filtrado[i].Hora = clases[n].hora_inicio
                    /\ df_filtrado[j].Hora = clases[n].hora_fin

\* C7 witness: two rows of different keys on adjacent slots were aggregated,
\* next to a merged pair of one key.
C7_Testigo ==
    /\ Agrupado
    /\ \E i, j \in DOMAIN df_filtrado :
          /\ CamposDeFila(df_filtrado[i]) # CamposDeFila(df_filtrado[j])
          /\ PosEnCatalogo(df_filtrado[i].Hora) # 0
          /\ PosEnCatalogo(df_filtrado[j].Hora) = PosEnCatalogo(df_filtrado[i].Hora) + 1
    /\ \E n \in DOMAIN clases : clases[n].es_de_dos_horas

\* C10: the enrollment of a session is the one of a record of its group at
\* the session's own start slot.
C10_InscritosDeLaHoraDeInicio ==
    Agrupado =>
        \A n \in DOMAIN clases :
            \E i \in FilasEn(CamposDeClase(clases[n]), clases[n].hora_inicio) :
                df_filtrado[i].Inscritos = clases[n].inscritos

\* C8: a report whose column count is not the expected one is read with a
\* warning, its columns renamed to the first N names, and without an error.
C8_ColumnasDistintasSoloAdvierte ==
    ( /\ pc # "inicio"
      /\ archivo.existe
      /\ archivo.ncolumnas # Len(columnas_entrada) )
    => /\ pc # "error_lectura"
       /\ advertencia
       /\ Len(columnas) = archivo.ncolumnas
       /\ \A i \in DOMAIN columnas : columnas[i] = columnas_entrada[i]

EnMapeo(c) == c.laboratorio \in DOMAIN mapeo_laboratorios

EnCatalogo(c) ==
    /\ c.dia \in Rango(dias)
    /\ c.hora_inicio \in Rango(franjas_horarias)
    /\ c.es_de_dos_horas => c.hora_fin \in Rango(franjas_horarias)

\* the lab columns of a row
ColumnasDeLab(fila) == DOMAIN fila \ {"Dia", "Hora"}

\* C3: a two-slot session, alone in the grid, with a mapped room and day and
\* slots of the catalog: the start row holds subject and "<group> |
\* <enrollment>" under its lab, the end row holds instructor and project
\* under the same lab, and every other cell is empty.
C3_DosMitadesDistintas ==
    ( /\ pc = "matriz"
      /\ Len(clases) = 1
      /\ clases[1].es_de_dos_horas
      /\ EnMapeo(clases[1])
      /\ EnCatalogo(clases[1])
      /\ clases[1].hora_inicio # clases[1].hora_fin )
    => LET c == clases[1]
           L == mapeo_laboratorios[c.laboratorio]
       IN  \A i \in DOMAIN df_horario : \A col \in ColumnasDeLab(df_horario[i]) :
               df_horario[i][col] =
                   IF df_horario[i]["Dia"] = c.dia /\ df_horario[i]["Hora"] = c.hora_inicio
                   THEN (IF col = L \o "_asignatura" THEN c.asignatura
                         ELSE IF col = L \o "_grupo"
                              THEN c.grupo \o " | " \o ToString(c.inscritos)
                         ELSE "")
                   ELSE IF df_horario[i]["Dia"] = c.dia /\ df_horario[i]["Hora"] = c.hora_fin
                   THEN (IF col = L \o "_asignatura" THEN c.docente
                         ELSE IF col = L \o "_grupo" THEN c.proyecto
                         ELSE "")
                   ELSE ""

\* C3 witness: such a session was placed, and its lab has columns in the grid.
C3_Testigo ==
    /\ pc = "matriz"
    /\ Len(clases) = 1
    /\ clases[1].es_de_dos_horas
    /\ EnMapeo(clases[1])
    /\ EnCatalogo(clases[1])
    /\ clases[1].hora_inicio # clases[1].hora_fin
    /\ \E i \in DOMAIN df_horario :
          (mapeo_laboratorios[clases[1].laboratorio] \o "_asignatura")
              \in DOMAIN df_horario[i]

\* C4: whatever the sessions, the grid has days x slots + (days - 1) rows,
\* 101 with the catalog of the code: per day one data row per slot in
\* catalog order, then a separator row after every day but the last.
C4_FilasDeLaMatriz ==
    pc = "matriz" =>
        LET nd == Len(dias)
            nf == Len(franjas_horarias)
        IN  /\ Len(df_horario) = nd * nf + (nd - 1)
            /\ Len(df_horario) = 101
            /\ \A d \in 1..nd : \A j \in 1..nf :
                  /\ df_horario[(d - 1) * (nf + 1) + j]["Dia"] = dias[d]
                  /\ df_horario[(d - 1) * (nf + 1) + j]["Hora"] = franjas_horarias[j]
            /\ \A d \in 1..(nd - 1) :
                  /\ df_horario[d * (nf + 1)]["Dia"] = ""
                  /\ df_horario[d * (nf + 1)]["Hora"] = ""

\* C4 witness: a grid was built from a list with a session whose room is
\* not mapped and a session outside the catalog.
C4_Testigo ==
    /\ pc = "matriz"
    /\ \E i \in DOMAIN clases : ~EnMapeo(clases[i])
    /\ \E i \in DOMAIN clases : ~EnCatalogo(clases[i])

\* C4 witness of the empty list.
C4_TestigoVacia == pc = "matriz" /\ clases = <<>>

\* the list without its i-th session
SinClase(cs, i) == SubSeq(cs, 1, i - 1) \o SubSeq(cs, i + 1, Len(cs))

\* C6: a session whose room is not a key of the mapping contributes no
\* cell: the grid is the one built from the list without that session.
C6_SinMapeoNoEscribe ==
    pc = "matriz" =>
        \A i \in DOMAIN clases :
            ~EnMapeo(clases[i])
                => df_horario = crear_matriz_horario(SinClase(clases, i), mapeo_laboratorios)

\* C6 witness: a grid built from a session with an unmapped room and a
\* session that wrote its cells.
C6_Testigo ==
    /\ pc = "matriz"
    /\ \E i \in DOMAIN clases : ~EnMapeo(clases[i]) /\ EnCatalogo(clases[i])
    /\ \E i \in DOMAIN df_horario : \E col \in ColumnasDeLab(df_horario[i]) :
          df_horario[i][col] # ""

\* a session whose day or whose start slot is not in the catalog
FueraDeCatalogo(c) ==
    c.dia \notin Rango(dias) \/ c.hora_inicio \notin Rango(franjas_horarias)

\* the separator rows of the grid
FilasSeparadoras ==
    {i \in DOMAIN df_horario : df_horario[i]["Dia"] = "" /\ df_horario[i]["Hora"] = ""}

\* C11: a session whose day or start slot is outside the catalog writes no
\* cell: the grid is the one built from the list without it, and every
\* separator row keeps all its sub-cells empty.
C11_FueraDeCatalogoNoEscribe ==
    pc = "matriz" =>
        /\ \A i \in DOMAIN clases :
              FueraDeCatalogo(clases[i])
                  => df_horario = crear_matriz_horario(SinClase(clases, i),
                                                       mapeo_laboratorios)
        /\ \A i \in FilasSeparadoras : \A col \in ColumnasDeLab(df_horario[i]) :
              df_horario[i][col] = ""

\* the output labs of the mapping
LabsDeSalida == {mapeo_laboratorios[k] : k \in DOMAIN mapeo_laboratorios}

\* positions of the sessions that write under lab L in the row of day d and
\* slot h: the slot is their start slot, or the end slot of a two-slot session
Escritoras(d, h, L) ==
    {n \in DOMAIN clases :
        /\ EnMapeo(clases[n])
        /\ mapeo_laboratorios[clases[n].laboratorio] = L
        /\ clases[n].dia = d
        /\ \/ clases[n].hora_inicio = h
           \/ clases[n].es_de_dos_horas /\ clases[n].hora_fin = h}

\* what session c leaves in the row of slot h: its end-slot content when h is
\* the end slot of a two-slot session, its start-slot content otherwise
ContenidoEn(c, h) ==
    IF c.es_de_dos_horas /\ c.hora_fin = h
    THEN <<c.docente, c.proyecto>>
    ELSE <<c.asignatura, c.grupo \o " | " \o ToString(c.inscritos)>>

\* the data rows of the grid
FilasDeDatos ==
    {i \in DOMAIN df_horario :
        /\ df_horario[i]["Dia"] \in Rango(dias)
        /\ df_horario[i]["Hora"] \in Rango(franjas_horarias)}

\* C12: last write wins: in every data row and under every output lab, the
\* two sub-cells hold what the last session of the list that writes there
\* wrote, both from that one session, and are empty when no session writes
\* there.
C12_UltimaEscrituraGana ==
    pc = "matriz" =>
        \A i \in FilasDeDatos : \A L \in LabsDeSalida :
            LET d == df_horario[i]["Dia"]
                h == df_horario[i]["Hora"]
                W == Escritoras(d, h, L)
                celdas == <<df_horario[i][L \o "_asignatura"],
                            df_horario[i][L \o "_grupo"]>>
            IN  IF W = {} THEN celdas = <<"", "">>
                ELSE LET n == CHOOSE x \in W : \A y \in W : y <= x
                     IN  celdas = ContenidoEn(clases[n], h)

\* C12 witness: two sessions of the list wrote different content into the
\* same row under the same output lab.
C12_Testigo ==
    /\ pc = "matriz"
    /\ \E i \in FilasDeDatos : \E L \in LabsDeSalida :
          \E n, m \in Escritoras(df_horario[i]["Dia"], df_horario[i]["Hora"], L) :
              /\ n < m
              /\ ContenidoEn(clases[n], df_horario[i]["Hora"])
                     # ContenidoEn(clases[m], df_horario[i]["Hora"])

====
